---- MODULE Spec2Model ----
(***************************************************************************)
(* A model of tools/extract_comments.py: the comment extractor that scans  *)
(* the *.hpp files of a directory and prints a Markdown summary of their   *)
(* comments.  Text is a sequence of one-character strings; every regular   *)
(* expression of the program is an operator that scans such a sequence the *)
(* way Python's re module does (leftmost match, greedy and lazy            *)
(* quantifiers, ordered alternation).                                      *)
(***************************************************************************)
EXTENDS Integers, Sequences, FiniteSets, TLC

VARIABLES
    args,        \* sys.argv
    fs,          \* the file system: its directories and the target's entries
    pc,          \* position of main(): start, loop, done, exited, crashed
    names,       \* the list glob(header_glob) returned
    idx,         \* position of the for loop in names
    stdout,      \* the characters written to standard output
    status,      \* the exit status of the process (-1 while it runs)
    opened,      \* the paths open() was called with, in order
    selected,    \* `result` after line 40, of the file processed last
    cleaned,     \* `result` after line 48, of the file processed last
    run,         \* 1 in the first invocation, 2 in the second
    prevOut,     \* standard output of the first invocation
    prevStatus   \* exit status of the first invocation

vars == <<args, fs, pc, names, idx, stdout, status, opened, selected, cleaned,
          run, prevOut, prevStatus>>

(***************************************************************************)
(* Characters and character classes of Python's re module.                 *)
(***************************************************************************)
NL == "\n"

\* the character ` (U+0060), which a TLA+ string cannot hold
BACKTICK == "backtick"

Letters ==
    {"a", "b", "c", "d", "e", "f", "g", "h", "i", "j", "k", "l", "m", "n", "o",
     "p", "q", "r", "s", "t", "u", "v", "w", "x", "y", "z",
     "A", "B", "C", "D", "E", "F", "G", "H", "I", "J", "K", "L", "M", "N", "O",
     "P", "Q", "R", "S", "T", "U", "V", "W", "X", "Y", "Z"}

Digits == {"0", "1", "2", "3", "4", "5", "6", "7", "8", "9"}

\* \s, and the characters str.strip() removes
IsSpace(c) == c \in {" ", NL, "\t"}

\* \w
IsWord(c) == c \in Letters \cup Digits \cup {"_"}

\* . (without DOTALL): any character but the newline
IsDot(c) == c # "" /\ c # NL

\* (.|\s) of comment_pattern
IsDotOrSpace(c) == IsDot(c) \/ IsSpace(c)

\* s[i], or "" past either end
At(s, i) == IF i >= 1 /\ i <= Len(s) THEN s[i] ELSE ""

\* p occurs in s at position i
StartsAt(s, i, p) ==
    /\ i >= 1
    /\ i + Len(p) - 1 <= Len(s)
    /\ SubSeq(s, i, i + Len(p) - 1) = p

\* str.startswith
startswith(x, p) == StartsAt(x, 1, p)

\* the first index at or after i whose character is not whitespace (\s*)
RECURSIVE SkipSpaces(_, _)
SkipSpaces(s, i) == IF IsSpace(At(s, i)) THEN SkipSpaces(s, i + 1) ELSE i

RECURSIVE SkipWord(_, _)
SkipWord(s, i) == IF IsWord(At(s, i)) THEN SkipWord(s, i + 1) ELSE i

RECURSIVE SkipDot(_, _)
SkipDot(s, i) == IF IsDot(At(s, i)) THEN SkipDot(s, i + 1) ELSE i

RECURSIVE SkipBlank(_, _)
SkipBlank(s, i) == IF At(s, i) = " " THEN SkipBlank(s, i + 1) ELSE i

RECURSIVE SkipSpacesBack(_, _)
SkipSpacesBack(s, j) == IF IsSpace(At(s, j)) THEN SkipSpacesBack(s, j - 1) ELSE j

\* str.strip(): leading and trailing whitespace removed
strip(x) ==
    LET i == SkipSpaces(x, 1)
        j == SkipSpacesBack(x, Len(x))
    IN  IF i > j THEN <<>> ELSE SubSeq(x, i, j)

\* ---------------------------------------------------------------------------
\* line 21: comment_pattern = "(/\*\*?((.|\s)*?)\*/|///?<?(.*))"
\* ---------------------------------------------------------------------------
OPEN_BLOCK == <<"/", "*">>
CLOSE_BLOCK == <<"*", "/">>
LINE_MARK == <<"/", "/">>

NoMatch == [ok |-> FALSE, end |-> 0, g2 |-> <<>>, g4 |-> <<>>]

\* ((.|\s)*?)\*/ from position i: the lazy group grows one character at a
\* time until \*/ follows; 0 when the text ends first
RECURSIVE LazyClose(_, _)
LazyClose(s, j) ==
    IF StartsAt(s, j, CLOSE_BLOCK) THEN j
    ELSE IF j <= Len(s) /\ IsDotOrSpace(s[j]) THEN LazyClose(s, j + 1)
    ELSE 0

\* the first alternative, /\*\*?((.|\s)*?)\*/, at position i: \*? is greedy,
\* so the second star is taken first and given back only when no \*/ follows
MatchBlockAt(s, i) ==
    IF ~StartsAt(s, i, OPEN_BLOCK) THEN NoMatch
    ELSE LET j3 == IF At(s, i + 2) = "*" THEN LazyClose(s, i + 3) ELSE 0
             j2 == LazyClose(s, i + 2)
         IN  IF j3 # 0
               THEN [ok |-> TRUE, end |-> j3 + 2,
                     g2 |-> SubSeq(s, i + 3, j3 - 1), g4 |-> <<>>]
             ELSE IF j2 # 0
               THEN [ok |-> TRUE, end |-> j2 + 2,
                     g2 |-> SubSeq(s, i + 2, j2 - 1), g4 |-> <<>>]
             ELSE NoMatch

\* the second alternative, ///?<?(.*), at position i
MatchLineAt(s, i) ==
    IF ~StartsAt(s, i, LINE_MARK) THEN NoMatch
    ELSE LET a == IF At(s, i + 2) = "/" THEN i + 3 ELSE i + 2
             b == IF At(s, a) = "<" THEN a + 1 ELSE a
             e == SkipDot(s, b)
         IN  [ok |-> TRUE, end |-> e, g2 |-> <<>>, g4 |-> SubSeq(s, b, e - 1)]

\* comment_pattern at position i: the alternatives in their order
comment_pattern(s, i) ==
    LET m == MatchBlockAt(s, i)
    IN  IF m.ok THEN m ELSE MatchLineAt(s, i)

\* comment_re.findall(content): the matches left to right, not overlapping
RECURSIVE FindAllFrom(_, _)
FindAllFrom(s, i) ==
    IF i > Len(s) THEN <<>>
    ELSE LET m == comment_pattern(s, i)
         IN  IF m.ok THEN <<m>> \o FindAllFrom(s, m.end)
             ELSE FindAllFrom(s, i + 1)

comment_re_findall(content) == FindAllFrom(content, 1)

\* ---------------------------------------------------------------------------
\* line 24: strip_pattern = "\n\s*\*? ?", substituted by one space
\* ---------------------------------------------------------------------------
\* strip_pattern as a bug would have it: "\n\s*", without the optional star
\* and space of a comment line's prefix
strip_pattern_NoStar(s, i) == SkipSpaces(s, i + 1)

\* the end (exclusive) of the match of strip_pattern that starts at i
strip_pattern(s, i) ==
    LET a == SkipSpaces(s, i + 1)
        b == IF At(s, a) = "*" THEN a + 1 ELSE a
    IN  IF At(s, b) = " " THEN b + 1 ELSE b

RECURSIVE StripSubFrom(_, _)
StripSubFrom(s, i) ==
    IF i > Len(s) THEN <<>>
    ELSE IF s[i] = NL THEN <<" ">> \o StripSubFrom(s, strip_pattern(s, i))
    ELSE <<s[i]>> \o StripSubFrom(s, i + 1)

\* re.sub(strip_pattern, " ", x)
strip_pattern_sub(x) == StripSubFrom(x, 1)

\* line 39: the text selected for one match
SelectText(m) ==
    IF m.g4 # <<>> THEN strip(m.g4) ELSE strip(strip_pattern_sub(m.g2))

(***************************************************************************)
(* The filters of lines 41 to 43                                           *)
(***************************************************************************)
NAMESPACE_SP == <<"n", "a", "m", "e", "s", "p", "a", "c", "e", " ">>

\* is_namespace as a bug would have it: the prefix without its final space
is_namespace_NoSpace(x) ==
    startswith(x, <<"n", "a", "m", "e", "s", "p", "a", "c", "e">>)

\* line 41: x.startswith("namespace ")
is_namespace(x) == startswith(x, NAMESPACE_SP)

\* .*?> from position j: the lazy run grows until > follows
RECURSIVE LazyGt(_, _)
LazyGt(s, j) ==
    IF At(s, j) = ">" THEN TRUE
    ELSE IF IsDot(At(s, j)) THEN LazyGt(s, j + 1)
    ELSE FALSE

\* xml_tag = "</?.*?>", xml_tag.match(x): anchored at the start of x
xml_tag_match(x) ==
    /\ At(x, 1) = "<"
    /\ \/ (At(x, 2) = "/" /\ LazyGt(x, 3))
       \/ LazyGt(x, 2)

HPP_GUARD == <<"_", "H", "P", "P", "_">>

\* \w*_HPP_ with \w* ending before position k: the greedy run gives back one
\* character at a time
RECURSIVE GuardBacktrack(_, _)
GuardBacktrack(x, k) ==
    IF k < 1 THEN FALSE
    ELSE IF StartsAt(x, k, HPP_GUARD) THEN TRUE
    ELSE GuardBacktrack(x, k - 1)

\* include_guard_match as a bug would have it: include_guard.search(x), which
\* finds the identifier anywhere in x
include_guard_match_Search(x) ==
    \E i \in 1..Len(x) : GuardBacktrack(SubSeq(x, i, Len(x)), SkipWord(x, i) - i + 1)

\* include_guard = "\w*_HPP_", include_guard.match(x): anchored at the start
include_guard_match(x) == GuardBacktrack(x, SkipWord(x, 1))

(***************************************************************************)
(* The substitutions of lines 44 to 46                                     *)
(***************************************************************************)
FENCE == <<BACKTICK, BACKTICK, BACKTICK>>

\* LazyFence as a bug would have it: .*``` (greedy), which runs to the last
\* closing fence instead of the nearest
RECURSIVE LazyFence_Greedy(_, _)
LazyFence_Greedy(s, j) ==
    IF j > Len(s) \/ ~IsDot(s[j]) THEN 0
    ELSE LET later == LazyFence_Greedy(s, j + 1)
         IN  IF later # 0 THEN later
             ELSE IF StartsAt(s, j, FENCE) THEN j ELSE 0

\* .*?``` from position j: the index of the closing fence, 0 when a newline
\* or the end of the text comes first
RECURSIVE LazyFence(_, _)
LazyFence(s, j) ==
    IF StartsAt(s, j, FENCE) THEN j
    ELSE IF IsDot(At(s, j)) THEN LazyFence(s, j + 1)
    ELSE 0

\* code_example = "```.*?```" at position i: the end (exclusive) of the match,
\* 0 when there is none
code_example(s, i) ==
    IF ~StartsAt(s, i, FENCE) THEN 0
    ELSE LET j == LazyFence(s, i + 3) IN IF j = 0 THEN 0 ELSE j + 3

RECURSIVE CodeSubFrom(_, _)
CodeSubFrom(s, i) ==
    IF i > Len(s) THEN <<>>
    ELSE LET e == code_example(s, i)
         IN  IF e # 0 THEN <<" ">> \o CodeSubFrom(s, e)
             ELSE <<s[i]>> \o CodeSubFrom(s, i + 1)

\* line 44: re.sub(code_example, " ", x)
code_example_sub(x) == CodeSubFrom(x, 1)

T_BRIEF == <<"@", "b", "r", "i", "e", "f">>
T_PARAM == <<"@", "p", "a", "r", "a", "m">>
T_TPARAM == <<"@", "t", "p", "a", "r", "a", "m">>
T_RETURN == <<"@", "r", "e", "t", "u", "r", "n">>
T_NOTE == <<"@", "n", "o", "t", "e">>
Q_IN == <<"[", "i", "n", "]">>
Q_OUT == <<"[", "o", "u", "t", "]">>
Q_INOUT == <<"[", "i", "n", "o", "u", "t", "]">>
BULLET == <<NL, "-", " ">>

\* (\[(in|out|inout)\])? at position a: the position after it
ParamQualifier(s, a) ==
    IF StartsAt(s, a, Q_IN) THEN a + Len(Q_IN)
    ELSE IF StartsAt(s, a, Q_OUT) THEN a + Len(Q_OUT)
    ELSE IF StartsAt(s, a, Q_INOUT) THEN a + Len(Q_INOUT)
    ELSE a

\* \s*\w* at position a: the position after it
ParamName(s, a) == SkipWord(s, SkipSpaces(s, a))

\* doxygen_tag as a bug would have it: \s*\w* left out, so that the tag of a
\* parameter does not take the parameter's name with it
doxygen_tag_KeepsName(s, i) ==
    IF StartsAt(s, i, T_BRIEF) THEN i + Len(T_BRIEF)
    ELSE IF StartsAt(s, i, T_TPARAM) THEN ParamQualifier(s, i + Len(T_TPARAM))
    ELSE IF StartsAt(s, i, T_PARAM) THEN ParamQualifier(s, i + Len(T_PARAM))
    ELSE IF StartsAt(s, i, T_RETURN) THEN i + Len(T_RETURN)
    ELSE IF StartsAt(s, i, T_NOTE) THEN i + Len(T_NOTE)
    ELSE 0

\* doxygen_tag = "(@brief|@t?param(\[(in|out|inout)\])?\s*\w*|@return|@note)"
\* at position i: the end (exclusive) of the match, 0 when there is none
doxygen_tag(s, i) ==
    IF StartsAt(s, i, T_BRIEF) THEN i + Len(T_BRIEF)
    ELSE IF StartsAt(s, i, T_TPARAM)
      THEN ParamName(s, ParamQualifier(s, i + Len(T_TPARAM)))
    ELSE IF StartsAt(s, i, T_PARAM)
      THEN ParamName(s, ParamQualifier(s, i + Len(T_PARAM)))
    ELSE IF StartsAt(s, i, T_RETURN) THEN i + Len(T_RETURN)
    ELSE IF StartsAt(s, i, T_NOTE) THEN i + Len(T_NOTE)
    ELSE 0

RECURSIVE DoxygenSubFrom(_, _)
DoxygenSubFrom(s, i) ==
    IF i > Len(s) THEN <<>>
    ELSE LET e == doxygen_tag(s, i)
         IN  IF e # 0 THEN BULLET \o DoxygenSubFrom(s, e)
             ELSE <<s[i]>> \o DoxygenSubFrom(s, i + 1)

\* line 45: re.sub(doxygen_tag, "\n- ", x)
doxygen_tag_sub(x) == DoxygenSubFrom(x, 1)

RECURSIVE SpacesSubFrom(_, _)
SpacesSubFrom(s, i) ==
    IF i > Len(s) THEN <<>>
    ELSE IF s[i] = " " THEN <<" ">> \o SpacesSubFrom(s, SkipBlank(s, i))
    ELSE <<s[i]>> \o SpacesSubFrom(s, i + 1)

\* spaces_sub as a bug would have it: the pattern " " without its +, which
\* replaces every space by itself
spaces_sub_NoPlus(x) == x

\* spaces = " +", line 46: re.sub(spaces, " ", x)
spaces_sub(x) == SpacesSubFrom(x, 1)

(***************************************************************************)
(* Lines 38 to 48: the cleaned comment lines of one file's content         *)
(***************************************************************************)
\* lines 38 to 40: the selected text of every match, in match order
SelectedTexts(content) ==
    LET ms == comment_re_findall(content)
    IN  [k \in 1..Len(ms) |-> SelectText(ms[k])]

\* lines 41 to 43: what the three filters keep
KeptByFilters(x) ==
    /\ ~is_namespace(x)
    /\ ~xml_tag_match(x)
    /\ ~include_guard_match(x)

\* lines 44 to 47: the substitutions and the final strip
CleanText(x) == strip(spaces_sub(doxygen_tag_sub(code_example_sub(x))))

NotEmpty(x) == x # <<>>

\* lines 41 to 48 applied to the list of selected texts
CleanedOf(sel) ==
    LET kept == SelectSeq(sel, KeptByFilters)
        subst == [k \in 1..Len(kept) |-> CleanText(kept[k])]
    IN  SelectSeq(subst, NotEmpty)

CleanedLines(content) == CleanedOf(SelectedTexts(content))

(***************************************************************************)
(* Output, paths and the directory listing                                 *)
(***************************************************************************)
\* print(x): the text and a newline
PrintLine(x) == x \o <<NL>>

RECURSIVE PrintAll(_)
PrintAll(xs) ==
    IF xs = <<>> THEN <<>> ELSE PrintLine(Head(xs)) \o PrintAll(Tail(xs))

\* USAGE as a bug would have it: the second line without its leading spaces
USAGE_NoIndent(name) ==
    PrintLine(<<"U", "S", "A", "G", "E", ":">>)
        \o PrintLine(name \o <<" ", "[", "D", "I", "R", "]">>)

\* lines 6, 7 and 11: USAGE.format(name), printed
USAGE(name) ==
    PrintLine(<<"U", "S", "A", "G", "E", ":">>)
        \o PrintLine(<<" ", " ", " ", " ">> \o name \o <<" ", "[", "D", "I", "R", "]">>)

\* os.path.join(a, b) for a relative b
path_join(a, b) ==
    IF a = <<>> \/ a[Len(a)] = "/" THEN a \o b ELSE a \o <<"/">> \o b

HPP_PATTERN == <<"*", ".", "h", "p", "p">>
HPP_SUFFIX == <<".", "h", "p", "p">>

\* line 32: os.path.join(args[1], "*.hpp")
header_glob(dir) == path_join(dir, HPP_PATTERN)

\* fnmatch of an entry name against *.hpp, as glob applies it: a name that
\* starts with a dot is hidden from a pattern that does not
MatchesHpp(name) ==
    /\ Len(name) >= Len(HPP_SUFFIX)
    /\ SubSeq(name, Len(name) - Len(HPP_SUFFIX) + 1, Len(name)) = HPP_SUFFIX
    /\ name[1] # "."

EntryMatches(e) == MatchesHpp(e.name)

\* line 35: glob(header_glob), the matching entries in listing order
glob(dir, entries) ==
    LET hit == SelectSeq(entries, EntryMatches)
    IN  [k \in 1..Len(hit) |-> path_join(dir, hit[k].name)]

\* line 33: the level-1 heading and the blank line of line 34
Heading(dir) ==
    PrintLine(<<"#", " ", BACKTICK>> \o header_glob(dir) \o <<BACKTICK>>) \o PrintLine(<<>>)

\* FileSection as a bug would have it: the print() of line 54 left out
FileSection_NoTrailingBlank(name, lines) ==
    PrintLine(<<"#", "#", " ", BACKTICK>> \o name \o <<BACKTICK>>)
        \o PrintLine(<<>>) \o PrintAll(lines)

\* lines 50 to 54: one file's section
FileSection(name, lines) ==
    PrintLine(<<"#", "#", " ", BACKTICK>> \o name \o <<BACKTICK>>)
        \o PrintLine(<<>>) \o PrintAll(lines) \o PrintLine(<<>>)

\* line 16: the argument check
BadArgs(a, dirs) == IF Len(a) < 2 THEN TRUE ELSE a[2] \notin dirs

\* the index in the listing of the entry a path names
EntryIndex(dir, entries, path) ==
    CHOOSE k \in 1..Len(entries) : path_join(dir, entries[k].name) = path

\* FileAfterOpen as a bug would have it: open(name, "w") truncates the file
FileAfterOpen_Truncating(f) == [f EXCEPT !.content = <<>>]

\* line 36: open(name) opens for reading, which leaves the file as it is
FileAfterOpen(f) == f

(***************************************************************************)
(* The steps of main()                                                     *)
(***************************************************************************)
\* lines 16 to 18: print_usage(args[0]); exit(1)
UsageExit ==
    /\ pc = "start"
    /\ BadArgs(args, fs.dirs)
    /\ stdout' = stdout \o USAGE(args[1])
    /\ status' = 1
    /\ pc' = "exited"
    /\ UNCHANGED <<args, fs, names, idx, opened, selected, cleaned, run,
                   prevOut, prevStatus>>

\* lines 32 to 35: the heading, and the list the loop runs over
PrintHeading ==
    /\ pc = "start"
    /\ ~BadArgs(args, fs.dirs)
    /\ stdout' = stdout \o Heading(args[2])
    /\ names' = glob(args[2], fs.entries)
    /\ idx' = 1
    /\ pc' = "loop"
    /\ UNCHANGED <<args, fs, status, opened, selected, cleaned, run, prevOut,
                   prevStatus>>

\* lines 36 to 54: one readable file, read, cleaned and printed
ProcessFile ==
    /\ pc = "loop"
    /\ idx <= Len(names)
    /\ LET k == EntryIndex(args[2], fs.entries, names[idx])
           f == fs.entries[k]
           sel == SelectedTexts(f.content)
           res == CleanedOf(sel)
       IN  /\ f.readable
           /\ opened' = Append(opened, names[idx])
           /\ fs' = [fs EXCEPT !.entries[k] = FileAfterOpen(f)]
           /\ selected' = sel
           /\ cleaned' = res
           /\ stdout' = stdout \o FileSection(names[idx], res)
    /\ idx' = idx + 1
    /\ UNCHANGED <<args, pc, names, status, run, prevOut, prevStatus>>

\* ReadFailure as a bug would have it: the error caught and the file skipped
ReadFailure_Skipping ==
    /\ pc = "loop"
    /\ idx <= Len(names)
    /\ LET k == EntryIndex(args[2], fs.entries, names[idx])
       IN  ~fs.entries[k].readable
    /\ opened' = Append(opened, names[idx])
    /\ idx' = idx + 1
    /\ UNCHANGED <<args, fs, pc, names, stdout, status, selected, cleaned, run,
                   prevOut, prevStatus>>

\* lines 36 and 37 raising: the error is not caught and ends the process
ReadFailure ==
    /\ pc = "loop"
    /\ idx <= Len(names)
    /\ LET k == EntryIndex(args[2], fs.entries, names[idx])
       IN  ~fs.entries[k].readable
    /\ opened' = Append(opened, names[idx])
    /\ status' = 1
    /\ pc' = "crashed"
    /\ UNCHANGED <<args, fs, names, idx, stdout, selected, cleaned, run,
                   prevOut, prevStatus>>

\* the loop is over: main() returns and the process ends with status 0
Return ==
    /\ pc = "loop"
    /\ idx > Len(names)
    /\ status' = 0
    /\ pc' = "done"
    /\ UNCHANGED <<args, fs, names, idx, stdout, opened, selected, cleaned,
                   run, prevOut, prevStatus>>

Ended == pc \in {"done", "exited", "crashed"}

\* the tool is invoked a second time, with the same argument
Rerun ==
    /\ run = 1
    /\ Ended
    /\ run' = 2
    /\ prevOut' = stdout
    /\ prevStatus' = status
    /\ pc' = "start"
    /\ stdout' = <<>>
    /\ status' = -1
    /\ names' = <<>>
    /\ idx' = 1
    /\ opened' = <<>>
    /\ selected' = <<>>
    /\ cleaned' = <<>>
    /\ UNCHANGED <<args, fs>>

Next ==
    \/ UsageExit
    \/ PrintHeading
    \/ ProcessFile
    \/ ReadFailure
    \/ Return
    \/ Rerun

(***************************************************************************)
(* Initial states: an invocation and a directory                           *)
(***************************************************************************)
PROG == <<"p">>
DIR == <<"d">>
NODIR == <<"n">>

StartWith(a, es) ==
    /\ args = a
    /\ fs = [dirs |-> {DIR}, entries |-> es]
    /\ pc = "start"
    /\ names = <<>>
    /\ idx = 1
    /\ stdout = <<>>
    /\ status = -1
    /\ opened = <<>>
    /\ selected = <<>>
    /\ cleaned = <<>>
    /\ run = 1
    /\ prevOut = <<>>
    /\ prevStatus = -1

RECURSIVE Concat(_)
Concat(ss) == IF ss = <<>> THEN <<>> ELSE Head(ss) \o Concat(Tail(ss))

\* the sequences of at most n elements of S
SeqsUpTo(S, n) == UNION {[1..k -> S] : k \in 0..n}

\* the texts made of at most n fragments of F
Texts(F, n) == {Concat(fr) : fr \in SeqsUpTo(F, n)}

A_HPP == <<"a", ".", "h", "p", "p">>
B_HPP == <<"b", ".", "h", "p", "p">>
C_H == <<"c", ".", "h">>
DOT_HPP == <<".", "e", ".", "h", "p", "p">>

File(n, c) == [name |-> n, readable |-> TRUE, content |-> c]
Unreadable(n) == [name |-> n, readable |-> FALSE, content |-> <<>>]

\* an invocation that reads one file a.hpp with a content of C, and the
\* invocations with a missing argument, a missing directory and an unreadable
\* file
StartOneFile(C) ==
    \/ \E c \in C : StartWith(<<PROG, DIR>>, <<File(A_HPP, c)>>)
    \/ \E a \in {<<PROG>>, <<PROG, NODIR>>} : StartWith(a, <<>>)
    \/ StartWith(<<PROG, DIR>>, <<Unreadable(A_HPP)>>)

\* ---------------------------------------------------------------------------
\* Spec: invocations over directories of at most MaxFiles entries
\* ---------------------------------------------------------------------------
MaxFiles == 3

\* a line comment; a block comment with two tags and a line comment; no comment
SAMPLE_LINE == <<"/", "/", " ", "x">>
SAMPLE_TAGS ==
    <<"/", "*", "*", " ", "@", "b", "r", "i", "e", "f", " ", "y", " ",
      "@", "n", "o", "t", "e", " ", "z", "*", "/", NL, "/", "/", "w">>
SAMPLE_NONE == <<"i", "n", "t", " ", "v", ";">>

SampleContents == {SAMPLE_LINE, SAMPLE_TAGS, SAMPLE_NONE}

EntryPool ==
    {File(n, c) : n \in {A_HPP, B_HPP, C_H, DOT_HPP}, c \in SampleContents}
        \cup {Unreadable(n) : n \in {A_HPP, B_HPP}}

DistinctNames(es) ==
    \A i, j \in 1..Len(es) : i # j => es[i].name # es[j].name

Listings == {es \in SeqsUpTo(EntryPool, MaxFiles) : DistinctNames(es)}

Init ==
    \E a \in {<<PROG>>, <<PROG, DIR>>, <<PROG, NODIR>>}, es \in Listings :
        StartWith(a, es)

Spec == Init /\ [][Next]_vars

\* ---------------------------------------------------------------------------
\* What the claims say, in their own words
\* ---------------------------------------------------------------------------
\* a line of output: its text and the newline that ends it
Ln(x) == x \o <<NL>>

RECURSIVE EachOnItsLine(_)
EachOnItsLine(xs) ==
    IF xs = <<>> THEN <<>> ELSE Ln(Head(xs)) \o EachOnItsLine(Tail(xs))

\* a name ends in .hpp and is not a hidden name
EndsInHpp(n) ==
    /\ Len(n) >= 4
    /\ n[Len(n) - 3] = "." /\ n[Len(n) - 2] = "h"
    /\ n[Len(n) - 1] = "p" /\ n[Len(n)] = "p"
    /\ n[1] # "."

EntryEndsInHpp(e) == EndsInHpp(e.name)

\* the entries of the directory that match <DIR>/*.hpp, in listing order
Matched == SelectSeq(fs.entries, EntryEndsInHpp)

PathOf(e) == args[2] \o <<"/">> \o e.name

TopHeading == Ln(<<"#", " ", BACKTICK>> \o args[2]
                  \o <<"/", "*", ".", "h", "p", "p", BACKTICK>>) \o Ln(<<>>)

SectionOf(e) ==
    Ln(<<"#", "#", " ", BACKTICK>> \o PathOf(e) \o <<BACKTICK>>) \o Ln(<<>>)
        \o EachOnItsLine(CleanedLines(e.content)) \o Ln(<<>>)

\* the sections of the first n matched files
RECURSIVE SectionsUpTo(_)
SectionsUpTo(n) ==
    IF n = 0 THEN <<>> ELSE SectionsUpTo(n - 1) \o SectionOf(Matched[n])

ValidArgs == Len(args) >= 2 /\ args[2] \in fs.dirs

\* C1: a run over a valid directory that ends normally has printed exactly the
\* level-1 heading, a blank line, and for every matched file once, in glob's
\* order, its level-2 heading, a blank line, its cleaned strings one per
\* print, and a blank line; it exits with status 0, and with no matched file
\* the output is the heading and the blank line alone.
C1_ReportExact ==
    pc = "done" =>
        /\ ValidArgs
        /\ status = 0
        /\ stdout = TopHeading \o SectionsUpTo(Len(Matched))
        /\ opened = [k \in 1..Len(Matched) |-> PathOf(Matched[k])]
        /\ Matched = <<>> =>
             stdout = <<"#", " ", BACKTICK, "d", "/", "*", ".", "h", "p", "p",
                        BACKTICK, NL, NL>>

C1_Witness ==
    /\ pc = "done"
    /\ Len(names) = 2
    /\ Len(fs.entries) > Len(names)
    /\ cleaned # <<>>

\* C2: with no argument or a non-directory argument the run prints the two
\* usage lines and nothing else, exits with status 1, and opens no file; the
\* two cases give the same output.
C2_UsageOnly ==
    (~ValidArgs /\ pc # "start") =>
        /\ pc = "exited"
        /\ status = 1
        /\ stdout = <<"U", "S", "A", "G", "E", ":", NL, " ", " ", " ", " ">>
                       \o args[1] \o <<" ", "[", "D", "I", "R", "]", NL>>
        /\ opened = <<>>
        /\ names = <<>>

C2_Witness ==
    /\ pc = "exited"
    /\ Len(args) = 2
    /\ fs.entries # <<>>
    /\ run = 2
    /\ prevOut = stdout

C8_ReadFailureEndsRun ==
    /\ [](pc = "crashed" =>
            /\ idx <= Len(Matched)
            /\ ~Matched[idx].readable
            /\ status # 0
            /\ stdout = TopHeading \o SectionsUpTo(idx - 1)
            /\ opened = [k \in 1..idx |-> PathOf(Matched[k])])
    /\ [](status = 0 => \A k \in 1..Len(Matched) : Matched[k].readable)
    /\ [][pc = "crashed" => pc' = "start" /\ run' = 2]_vars

C8_Witness ==
    /\ pc = "crashed"
    /\ idx = 2
    /\ Len(names) = 2
    /\ cleaned # <<>>

\* ---------------------------------------------------------------------------
\* Claims about the text of one file: helpers
\* ---------------------------------------------------------------------------
\* the run read the one file of the directory and ended normally
OneFileDone == pc = "done" /\ Len(fs.entries) = 1 /\ fs.entries[1].readable

TheContent == fs.entries[1].content

\* p occurs somewhere in s
Contains(s, p) == \E i \in 1..Len(s) : StartsAt(s, i, p)

\* the first index at or after i that holds a newline, Len(s) + 1 without one
RECURSIVE NextNewline(_, _)
NextNewline(s, i) ==
    IF i > Len(s) \/ s[i] = NL THEN i ELSE NextNewline(s, i + 1)

\* the lines of an output, each without the newline that ends it
RECURSIVE OutputLines(_)
OutputLines(out) ==
    IF out = <<>> THEN <<>>
    ELSE LET k == NextNewline(out, 1)
         IN  <<SubSeq(out, 1, k - 1)>> \o OutputLines(SubSeq(out, k + 1, Len(out)))

A_SECTION_HEAD ==
    <<"#", "#", " ", BACKTICK, "d", "/", "a", ".", "h", "p", "p", BACKTICK>>

\* the output lines of the one file's section: what follows the four lines
\* of the two headings, without the blank line that ends the section
SectionLines ==
    LET ls == OutputLines(stdout) IN SubSeq(ls, 5, Len(ls) - 1)

\* ---------------------------------------------------------------------------
\* SpecC3: block comments made of documentation tags
\* ---------------------------------------------------------------------------
MaxTagFrags == 3

C3_INPUT ==
    <<"/", "*", "*", " ", "@", "b", "r", "i", "e", "f", " ", "D", "o", "e", "s",
      " ", "X", ".", " ", "@", "p", "a", "r", "a", "m", " ", "a", " ", "i", "n",
      "p", "u", "t", " ", "*", "/">>

TagFrags ==
    {<<" ">>, <<"a">>, <<"X", ".">>, T_BRIEF, T_PARAM, T_TPARAM, T_RETURN,
     T_NOTE, Q_IN, Q_INOUT}

TagContents ==
    {C3_INPUT}
        \cup {<<"/", "*", "*">> \o t \o CLOSE_BLOCK : t \in Texts(TagFrags, MaxTagFrags)}

InitC3 == StartOneFile(TagContents)

SpecC3 == InitC3 /\ [][Next]_vars

TagTokens == {T_BRIEF, T_PARAM, T_TPARAM, T_RETURN, T_NOTE}

\* C3 as stated: the section of the file /** @brief Does X. @param a input */
\* holds a line `Does X.` and after it a bullet line for a.
C3_AsStated ==
    (OneFileDone /\ TheContent = C3_INPUT) =>
        \E i \in 1..Len(SectionLines) :
            /\ SectionLines[i] = <<"D", "o", "e", "s", " ", "X", ".">>
            /\ \E j \in (i + 1)..Len(SectionLines) :
                   startswith(SectionLines[j], <<"-", " ", "a">>)

\* C3 as amended: every recognized tag, a parameter tag together with its
\* qualifier and the identifier after it, becomes a newline and `- `, so no
\* tag is left in any printed string; the section of the file
\* /** @brief Does X. @param a input */ is the two lines `- Does X. ` and
\* `- input` (the first bullet's newline is stripped, the name a is taken
\* with its tag).
C3_TagsBecomeBullets ==
    OneFileDone =>
        /\ \A k \in 1..Len(cleaned) : \A t \in TagTokens : ~Contains(cleaned[k], t)
        /\ TheContent = C3_INPUT =>
             /\ SectionLines = << <<"-", " ", "D", "o", "e", "s", " ", "X", ".", " ">>,
                                  <<"-", " ", "i", "n", "p", "u", "t">> >>
             /\ stdout = TopHeading \o Ln(A_SECTION_HEAD) \o Ln(<<>>)
                           \o Ln(<<"-", " ", "D", "o", "e", "s", " ", "X", ".", " ">>)
                           \o Ln(<<"-", " ", "i", "n", "p", "u", "t">>) \o Ln(<<>>)

C3_Witness ==
    /\ OneFileDone
    /\ TheContent = C3_INPUT
    /\ Len(cleaned) = 1
    /\ Len(SectionLines) = 2

\* ---------------------------------------------------------------------------
\* SpecC4: block comments with fenced code examples, on one and several lines
\* ---------------------------------------------------------------------------
MaxFenceFrags == 5

LINE_PREFIX == <<NL, " ", "*", " ">>

C4_EXAMPLE ==
    <<"/", "*", "*", NL, " ", "*", " ", "E", "x", "a", "m", "p", "l", "e", ":",
      NL, " ", "*", " ", BACKTICK, BACKTICK, BACKTICK, NL, " ", "*", " ",
      "c", "o", "d", "e", NL, " ", "*", " ", BACKTICK, BACKTICK, BACKTICK,
      NL, " ", "*", " ", "a", "f", "t", "e", "r", NL, " ", "*", "/">>

FenceFrags == {<<"a">>, <<"c">>, <<" ">>, LINE_PREFIX, <<BACKTICK, BACKTICK, BACKTICK>>}

FenceContents ==
    {C4_EXAMPLE}
        \cup {OPEN_BLOCK \o t \o CLOSE_BLOCK : t \in Texts(FenceFrags, MaxFenceFrags)}

InitC4 == StartOneFile(FenceContents)

SpecC4 == InitC4 /\ [][Next]_vars

\* what stands between the opener (/* or /**) and the closing */ of the file's
\* one block comment
BlockBody ==
    LET c == TheContent
    IN  SubSeq(c, IF At(c, 3) = "*" /\ Len(c) > 4 THEN 4 ELSE 3, Len(c) - 2)

TRIPLE == <<BACKTICK, BACKTICK, BACKTICK>>

\* the first index at or after i where ``` stands, 0 without one
RECURSIVE FenceAt(_, _)
FenceAt(b, i) ==
    IF i + 2 > Len(b) THEN 0
    ELSE IF SubSeq(b, i, i + 2) = TRIPLE THEN i
    ELSE FenceAt(b, i + 1)

\* b with every fenced span (a ``` to the nearest following ```, newlines in
\* between or not) replaced by one space
RECURSIVE WithoutFencedSpans(_)
WithoutFencedSpans(b) ==
    LET p == FenceAt(b, 1)
        q == IF p = 0 THEN 0 ELSE FenceAt(b, p + 3)
    IN  IF q = 0 THEN b
        ELSE SubSeq(b, 1, p - 1) \o <<" ">>
                 \o WithoutFencedSpans(SubSeq(b, q + 3, Len(b)))

IsBlank(c) == c = " " \/ c = NL \/ c = "\t"

\* the words of a text: its runs of characters other than whitespace
RECURSIVE WordsOf(_)
WordsOf(t) ==
    IF t = <<>> THEN <<>>
    ELSE IF IsBlank(Head(t)) THEN WordsOf(Tail(t))
    ELSE LET rest == WordsOf(Tail(t))
         IN  IF Len(t) > 1 /\ ~IsBlank(t[2])
               THEN <<(<<Head(t)>> \o Head(rest))>> \o Tail(rest)
             ELSE <<(<<Head(t)>>)>> \o rest

IsNotStar(w) == w # <<"*">>

RECURSIVE JoinWords(_)
JoinWords(ws) ==
    IF Len(ws) = 1 THEN ws[1] ELSE ws[1] \o <<" ">> \o JoinWords(Tail(ws))

\* the words of the comment outside its fenced spans, the line prefixes *
\* left out, joined by single spaces
VisibleText ==
    LET ws == SelectSeq(WordsOf(WithoutFencedSpans(BlockBody)), IsNotStar)
    IN  IF ws = <<>> THEN <<>> ELSE <<JoinWords(ws)>>

\* C4: of a block comment that holds fenced code examples, on one line or
\* across several (and that the filters of lines 41 to 43 keep), the printed
\* text is the comment's text outside the fenced spans, each span (fences and
\* code) having become a single space: the text before and after a span
\* survives, the code does not.
C4_FencedSpanRemoved ==
    OneFileDone =>
        /\ cleaned = VisibleText
        /\ SectionLines = VisibleText
        /\ TheContent = C4_EXAMPLE =>
             cleaned = << <<"E", "x", "a", "m", "p", "l", "e", ":", " ",
                            "a", "f", "t", "e", "r">> >>

C4_Witness ==
    /\ OneFileDone
    /\ TheContent = C4_EXAMPLE
    /\ Len(cleaned) = 1
    /\ ~Contains(cleaned[1], <<"c", "o", "d", "e">>)
    /\ Contains(BlockBody, <<"c", "o", "d", "e">>)

\* ---------------------------------------------------------------------------
\* Claims about the filters: helpers
\* ---------------------------------------------------------------------------
\* the text of the file's one comment: after // of a line comment, between
\* the delimiters of a block comment
CommentBody ==
    IF startswith(TheContent, <<"/", "/">>)
      THEN SubSeq(TheContent, 3, Len(TheContent))
    ELSE BlockBody

RECURSIVE DropLeadingBlanks(_)
DropLeadingBlanks(t) ==
    IF t # <<>> /\ IsBlank(Head(t)) THEN DropLeadingBlanks(Tail(t)) ELSE t

RECURSIVE DropTrailingBlanks(_)
DropTrailingBlanks(t) ==
    IF t # <<>> /\ IsBlank(t[Len(t)])
      THEN DropTrailingBlanks(SubSeq(t, 1, Len(t) - 1))
    ELSE t

\* a text without the whitespace at its two ends
Trimmed(t) == DropTrailingBlanks(DropLeadingBlanks(t))

\* ---------------------------------------------------------------------------
\* SpecC5: comments around the word namespace
\* ---------------------------------------------------------------------------
MaxNsFrags == 4

C5_DROPPED ==
    <<"/", "/", " ", "n", "a", "m", "e", "s", "p", "a", "c", "e", " ", "f", "o", "o">>
C5_KEPT ==
    <<"/", "/", " ", "T", "h", "i", "s", " ", "u", "s", "e", "s", " ", "n", "a",
      "m", "e", "s", "p", "a", "c", "e", " ", "f", "o", "o">>

NsFrags ==
    {<<" ">>, <<"\t">>, <<"f", "o", "o">>, <<"T", "h", "i", "s">>,
     <<"n", "a", "m", "e", "s", "p", "a", "c", "e">>}

NsContents ==
    {C5_DROPPED, C5_KEPT}
        \cup {LINE_MARK \o t : t \in Texts(NsFrags, MaxNsFrags)}
        \cup {OPEN_BLOCK \o t \o CLOSE_BLOCK : t \in Texts(NsFrags, MaxNsFrags)}

InitC5 == StartOneFile(NsContents)

SpecC5 == InitC5 /\ [][Next]_vars

\* the ten characters of the word namespace and the space after it
BeginsNamespaceSpace(t) ==
    /\ Len(t) >= 10
    /\ SubSeq(t, 1, 9) = <<"n", "a", "m", "e", "s", "p", "a", "c", "e">>
    /\ t[10] = " "

\* C5: a comment (with text, and no markup or guard in it) gives no output
\* line exactly when its trimmed text begins with `namespace ` - the word and a
\* space; `// namespace foo` gives no line, `// This uses namespace foo` gives
\* the line `This uses namespace foo`.
C5_NamespaceBoundary ==
    OneFileDone =>
        /\ Trimmed(CommentBody) # <<>> =>
             (SectionLines = <<>> <=> BeginsNamespaceSpace(Trimmed(CommentBody)))
        /\ TheContent = C5_DROPPED => SectionLines = <<>>
        /\ TheContent = C5_KEPT =>
             SectionLines = << <<"T", "h", "i", "s", " ", "u", "s", "e", "s", " ", "n",
                                 "a", "m", "e", "s", "p", "a", "c", "e", " ", "f",
                                 "o", "o">> >>

C5_Witness ==
    /\ OneFileDone
    /\ TheContent = C5_DROPPED
    /\ selected = << <<"n", "a", "m", "e", "s", "p", "a", "c", "e", " ", "f", "o", "o">> >>
    /\ cleaned = <<>>

\* ---------------------------------------------------------------------------
\* SpecC6: comments around an include-guard identifier
\* ---------------------------------------------------------------------------
MaxGuardFrags == 4

C6_ALONE ==
    <<"/", "/", " ", "F", "O", "O", "_", "B", "A", "R", "_", "H", "P", "P", "_">>
C6_TRAILING ==
    <<"/", "/", " ", "F", "O", "O", "_", "B", "A", "R", "_", "H", "P", "P", "_",
      " ", "i", "s", " ", "d", "e", "f", "i", "n", "e", "d", " ", "h", "e", "r", "e">>
C6_LEADING ==
    <<"/", "/", " ", "s", "e", "e", " ", "F", "O", "O", "_", "B", "A", "R", "_",
      "H", "P", "P", "_">>

GuardFrags ==
    {<<" ">>, <<"-">>, <<"_">>, <<"F", "O", "O">>, <<"_", "H", "P", "P">>,
     <<"_", "H", "P", "P", "_">>}

GuardContents ==
    {C6_ALONE, C6_TRAILING, C6_LEADING}
        \cup {LINE_MARK \o t : t \in Texts(GuardFrags, MaxGuardFrags)}

InitC6 == StartOneFile(GuardContents)

SpecC6 == InitC6 /\ [][Next]_vars

\* t begins with zero or more word characters that _HPP_ follows at once
BeginsWithGuard(t) ==
    \E k \in 0..Len(t) :
        /\ \A i \in 1..k : IsWord(t[i])
        /\ k + 5 <= Len(t)
        /\ SubSeq(t, k + 1, k + 5) = <<"_", "H", "P", "P", "_">>

\* C6: a comment (with text, and no markup or namespace note in it) gives no
\* output line exactly when its trimmed text begins with word characters
\* followed at once by _HPP_ - a match from the start, not of the whole text:
\* `FOO_BAR_HPP_` and `FOO_BAR_HPP_ is defined here` are dropped,
\* `see FOO_BAR_HPP_` is printed.
C6_GuardAnchoredAtStart ==
    OneFileDone =>
        /\ Trimmed(CommentBody) # <<>> =>
             (SectionLines = <<>> <=> BeginsWithGuard(Trimmed(CommentBody)))
        /\ TheContent \in {C6_ALONE, C6_TRAILING} => SectionLines = <<>>
        /\ TheContent = C6_LEADING =>
             SectionLines = << <<"s", "e", "e", " ", "F", "O", "O", "_", "B", "A", "R",
                                 "_", "H", "P", "P", "_">> >>

C6_Witness ==
    /\ OneFileDone
    /\ TheContent = C6_TRAILING
    /\ Len(selected) = 1
    /\ Len(selected[1]) > 12
    /\ cleaned = <<>>

\* ---------------------------------------------------------------------------
\* SpecC9: texts made of comment delimiters
\* ---------------------------------------------------------------------------
MaxSelFrags == 4

C9_BLOCK ==
    <<"/", "*", "*", NL, " ", "*", " ", "f", "o", "o", NL, " ", "*", " ",
      "b", "a", "r", NL, " ", "*", "/">>
C9_TRAILING_DOC == <<"/", "/", "/", "<", " ", "x">>
C9_TWO_MARKERS == <<"/", "/", " ", "a", " ", "/", "/", " ", "b">>

SelFrags ==
    {LINE_MARK, OPEN_BLOCK, CLOSE_BLOCK, <<"/">>, <<"<">>, <<NL>>, <<" ">>, <<"a">>}

SelContents ==
    {C9_BLOCK, C9_TRAILING_DOC, C9_TWO_MARKERS} \cup Texts(SelFrags, MaxSelFrags)

InitC9 == StartOneFile(SelContents)

SpecC9 == InitC9 /\ [][Next]_vars

\* a line comment's text after the marker: one / and then one < are skipped
AfterOptionalMarks(t) ==
    LET u == IF t # <<>> /\ Head(t) = "/" THEN Tail(t) ELSE t
    IN  IF u # <<>> /\ Head(u) = "<" THEN Tail(u) ELSE u

\* the content is one line comment: // and no newline after it
IsOneLineComment(c) == startswith(c, <<"/", "/">>) /\ ~Contains(c, <<NL>>)

\* the content is one block comment on one line: it opens with /*, and the
\* first */ after the opener is the end of the content
IsOneLineBlock(c) ==
    /\ Len(c) >= 4
    /\ SubSeq(c, 1, 2) = <<"/", "*">>
    /\ SubSeq(c, Len(c) - 1, Len(c)) = <<"*", "/">>
    /\ \A i \in 3..(Len(c) - 2) : SubSeq(c, i, i + 1) # <<"*", "/">>
    /\ ~Contains(c, <<NL>>)

Delimiters == {<<"/", "*">>, <<"*", "/">>, <<"/", "/">>}

\* C9 as stated: no selected text holds a newline or a comment delimiter.
C9_AsStated ==
    \A k \in 1..Len(selected) :
        /\ ~Contains(selected[k], <<NL>>)
        /\ \A d \in Delimiters : ~Contains(selected[k], d)

\* C9 as amended: a line comment's selected text is the rest of the line
\* after //, an optional third / and an optional <, trimmed; a block comment's
\* is what stands between the opener and the nearest following */, each
\* newline with the whitespace, one * and one space after it made a single
\* space, then trimmed.  No selected text holds a newline or whitespace at its
\* ends, and a block comment's selected text holds no */; a selected text
\* may hold //, /* and (in a line comment) */.  A block comment of several
\* lines with ` * ` prefixes gives its lines joined by single spaces.
C9_SelectedText ==
    /\ \A k \in 1..Len(selected) :
           /\ ~Contains(selected[k], <<NL>>)
           /\ Trimmed(selected[k]) = selected[k]
    /\ (OneFileDone /\ ~Contains(TheContent, <<"/", "/">>)) =>
           \A k \in 1..Len(selected) : ~Contains(selected[k], <<"*", "/">>)
    /\ (OneFileDone /\ IsOneLineComment(TheContent)) =>
           selected = <<Trimmed(AfterOptionalMarks(CommentBody))>>
    /\ (OneFileDone /\ IsOneLineBlock(TheContent)) =>
           selected = <<Trimmed(BlockBody)>>
    /\ (OneFileDone /\ TheContent = C9_BLOCK) =>
           selected = << <<"f", "o", "o", " ", "b", "a", "r">> >>
    /\ (OneFileDone /\ TheContent = C9_TRAILING_DOC) => selected = << <<"x">> >>
    /\ (OneFileDone /\ TheContent = C9_TWO_MARKERS) =>
           selected = << <<"a", " ", "/", "/", " ", "b">> >>

C9_Witness ==
    /\ OneFileDone
    /\ TheContent = C9_BLOCK
    /\ Len(selected) = 1
    /\ Len(selected[1]) = 7

\* ---------------------------------------------------------------------------
\* SpecC10: comments of spaces, newlines, fences and tags
\* ---------------------------------------------------------------------------
MaxCleanFrags == 4

CleanFrags == {<<" ">>, <<NL>>, <<"a">>, TRIPLE, T_NOTE}

CleanContents ==
    {LINE_MARK \o t : t \in Texts(CleanFrags, MaxCleanFrags)}
        \cup {OPEN_BLOCK \o t \o CLOSE_BLOCK : t \in Texts(CleanFrags, MaxCleanFrags)}

InitC10 == StartOneFile(CleanContents)

SpecC10 == InitC10 /\ [][Next]_vars

\* the file's one comment has no text left once its fenced spans are removed
OnlyFencesAndBlanks ==
    /\ startswith(TheContent, <<"/", "/">>) => ~Contains(TheContent, <<NL>>)
    /\ WordsOf(WithoutFencedSpans(CommentBody)) = <<>>

\* C10: every cleaned string that is printed is not empty, has no whitespace
\* at either end and no two spaces in a row; what is printed of a file is
\* exactly these strings; a comment of nothing but fenced examples and
\* whitespace gives no output line.
C10_CleanedStrings ==
    /\ \A k \in 1..Len(cleaned) :
           /\ cleaned[k] # <<>>
           /\ ~IsBlank(cleaned[k][1])
           /\ ~IsBlank(cleaned[k][Len(cleaned[k])])
           /\ ~Contains(cleaned[k], <<" ", " ">>)
    /\ OneFileDone =>
           stdout = TopHeading \o Ln(A_SECTION_HEAD) \o Ln(<<>>)
                        \o EachOnItsLine(cleaned) \o Ln(<<>>)
    /\ (OneFileDone /\ OnlyFencesAndBlanks) => cleaned = <<>> /\ SectionLines = <<>>

C10_Witness ==
    /\ OneFileDone
    /\ TheContent = OPEN_BLOCK \o TRIPLE \o <<"a">> \o TRIPLE \o <<NL>> \o CLOSE_BLOCK
    /\ selected # << <<>> >>
    /\ cleaned = <<>>

====
